---- MODULE Spec2Model ----
(***************************************************************************)
(* A model of the service layer of the project-management backend: the     *)
(* User, Workspace, Member, Project and Task collections and the services  *)
(* of workspace.service.ts, member.service.ts, project.service.ts and      *)
(* task.service.ts that read and write them, with the controllers that     *)
(* authorize a request before calling a service.                           *)
(***************************************************************************)
EXTENDS Integers, FiniteSets, Sequences, TLC

\* ------------------------------------------------------------------ bounds
MaxWorkspaces == 2
MaxProjects == 2
MaxTasks == 2
MaxMembers == 3
MaxRequests == 2
MaxSeeds == 2
MaxDay == 2
MaxPageSize == 2
MaxPageNumber == 3

\* ------------------------------------------------------------- value sets
Null == 0
NoUser == "null"
Users == {"u1", "u2"}
UserArgs == Users \cup {"ghost"}
Names == {"n1", "n2"}
CreateNames == {"n1"}
WorkspaceIds == 1..MaxWorkspaces
ProjectIds == 1..MaxProjects
TaskIds == 1..MaxTasks
MemberIds == 1..MaxMembers
Slots == 1..MaxRequests

OWNER == "OWNER"
ADMIN == "ADMIN"
MEMBER == "MEMBER"
Roles == {OWNER, ADMIN, MEMBER}

\* The permission lists, by role name, and the names in the order of the keys.
VIEW_ONLY == "VIEW_ONLY"
CREATE_PROJECT == "CREATE_PROJECT"
RolePermissions ==
  [name \in Roles |-> IF name = MEMBER THEN {VIEW_ONLY}
                      ELSE {CREATE_PROJECT, VIEW_ONLY}]
RoleNames == <<OWNER, ADMIN, MEMBER>>

TODO == "TODO"
DONE == "DONE"
TaskStatus == {TODO, DONE}
MEDIUM == "MEDIUM"
HIGH == "HIGH"
TaskPriority == {MEDIUM, HIGH}

\* What a caller can ask for: pageSize >= 1 and pageNumber >= 1.
PageSizes == 1..MaxPageSize
PageNumbers == 1..MaxPageNumber

\* Dates, in days: the due dates a body can give and the dates a call can be
\* made on; a task without a due date has Null.
DueDates == 1..MaxDay
Dates == 1..(MaxDay + 1)

VARIABLES workspaces, projects, tasks, members, users, roles, counters,
          requests

vars ==
  <<workspaces, projects, tasks, members, users, roles, counters, requests>>

\* The database as one value: what a service reads and what it returns changed.
Store ==
  [workspaces |-> workspaces, projects |-> projects, tasks |-> tasks,
   members |-> members, users |-> users, roles |-> roles,
   counters |-> counters]

\* ------------------------------------------------------------ collections
WorkspaceById(S, w) == {x \in S.workspaces : x.id = w}
WorkspaceByInviteCode(S, code) == {x \in S.workspaces : x.inviteCode = code}
ProjectById(S, p) == {x \in S.projects : x.id = p}
TaskById(S, t) == {x \in S.tasks : x.id = t}
MembersOf(S, u, w) == {m \in S.members : m.userId = u /\ m.workspaceId = w}
MembersOfUser(S, u) == {m \in S.members : m.userId = u}
UserExists(S, u) == u \in DOMAIN S.users
RoleByName(S, name) == {r \in S.roles : r.name = name}
RoleById(S, r) == {x \in S.roles : x.id = r}

\* populate("role") and role?.name: the name of the Role a member's role field
\* refers to, or nothing ("") when no Role has that id.
RoleNameOf(S, roleId) ==
  IF RoleById(S, roleId) = {} THEN ""
  ELSE (CHOOSE x \in RoleById(S, roleId) : TRUE).name

\* findOne returns one of the matching documents (no sort is given, so any of
\* them), or nothing: the possible answers, each a set of at most one document.
FindOne(matches) == IF matches = {} THEN {{}} ELSE {{m} : m \in matches}

HashValue(v) == <<"h">> \o v

\* userSchema.pre("save"): hashes the stored password when it was not modified.
PreSaveUser(user, passwordModified) ==
  IF ~passwordModified /\ user.password # <<>>
    THEN [user EXCEPT !.password = HashValue(user.password)]
    ELSE user

\* compareValue(value, hashedValue): whether hashedValue is a hash of value.
compareValue(value, hashedValue) == hashedValue = HashValue(value)

\* userSchema.methods.comparePassword: compareValue(value, this.password || "")
comparePassword(user, value) == compareValue(value, user.password)

\* The plaintext password users register with.
Plaintext == <<"p">>

\* The save of a new user document that was given a password: password is a
\* modified path of a new document.
CreateUser(password) ==
  PreSaveUser([currentWorkspace |-> Null, password |-> password], TRUE)

SaveUser(S, u, user) ==
  [S EXCEPT !.users = [S.users EXCEPT ![u] = PreSaveUser(user, FALSE)]]

\* MemberModel's save of a new document: an insert. The collection holds any
\* number of records of one (userId, workspaceId); nothing rejects a second.
InsertMember(S, member) ==
  [S EXCEPT !.members = @ \cup {member}, !.counters.members = member.id]

Returned(S, ids) == [outcome |-> "ok", store |-> S, ret |-> ids]
Throw(S, exception) == [outcome |-> exception, store |-> S, ret |-> {}]

\* ------------------------------------------------------------- seedRoles
\* The loop of seedRoles over the names of RolePermissions, from the i-th on:
\* a Role is inserted for each name that findOne does not find.
RECURSIVE SeedFrom(_, _)
SeedFrom(S, i) ==
  IF i > Len(RoleNames) THEN S
  ELSE IF RoleByName(S, RoleNames[i]) # {} THEN SeedFrom(S, i + 1)
  ELSE
    LET r == S.counters.roles + 1
        newRole == [id |-> r, name |-> RoleNames[i],
                    permissions |-> RolePermissions[RoleNames[i]]]
    IN SeedFrom([S EXCEPT !.roles = @ \cup {newRole}, !.counters.roles = r],
                i + 1)

\* seedRoles: in one transaction, deleteMany({}) of the roles and the loop;
\* a run that fails exits before the commit and leaves what there was.
seedRoles(S, failed) ==
  IF failed THEN S ELSE SeedFrom([S EXCEPT !.roles = {}], 1)

\* The roles after the first run of seedRoles on an empty collection.
Unseeded ==
  [workspaces |-> {}, projects |-> {}, tasks |-> {}, members |-> {},
   users |-> [u \in Users |-> [currentWorkspace |-> Null, password |-> <<>>]],
   roles |-> {},
   counters |-> [workspaces |-> 0, projects |-> 0, tasks |-> 0, members |-> 0,
                 roles |-> 0]]
SeededRoles == seedRoles(Unseeded, FALSE).roles

\* ------------------------------------------------------ workspace.service
CreateWorkspaceBeforeRoleCheck(S, u, name) ==
  IF ~UserExists(S, u) THEN Throw(S, "NotFoundException")
  ELSE
    LET w == S.counters.workspaces + 1
        m == S.counters.members + 1
        workspace == [id |-> w, name |-> name, owner |-> u, inviteCode |-> w]
        S1 == [S EXCEPT !.workspaces = @ \cup {workspace},
                        !.counters.workspaces = w]
    IN IF RoleByName(S, OWNER) = {} THEN Throw(S1, "NotFoundException")
       ELSE
         LET ownerRole == CHOOSE r \in RoleByName(S, OWNER) : TRUE
             member == [id |-> m, userId |-> u, workspaceId |-> w,
                        role |-> ownerRole.id]
             S2 == InsertMember(S1, member)
             S3 == SaveUser(S2, u, [S2.users[u] EXCEPT !.currentWorkspace = w])
         IN Returned(S3, {w})

createWorkspaceService(S, u, name) ==
  IF ~UserExists(S, u) THEN Throw(S, "NotFoundException")
  ELSE IF RoleByName(S, OWNER) = {} THEN Throw(S, "NotFoundException")
  ELSE
    LET w == S.counters.workspaces + 1
        m == S.counters.members + 1
        workspace == [id |-> w, name |-> name, owner |-> u, inviteCode |-> w]
        ownerRole == CHOOSE r \in RoleByName(S, OWNER) : TRUE
        member == [id |-> m, userId |-> u, workspaceId |-> w,
                   role |-> ownerRole.id]
        S1 == [S EXCEPT !.workspaces = @ \cup {workspace},
                        !.counters.workspaces = w]
        S2 == InsertMember(S1, member)
        S3 == SaveUser(S2, u, [S2.users[u] EXCEPT !.currentWorkspace = w])
    IN Returned(S3, {w})

getWorkspaceByIdService(S, w) ==
  IF WorkspaceById(S, w) = {} THEN Throw(S, "NotFoundException")
  ELSE Returned(S, WorkspaceById(S, w))

getWorkspaceMembersService(S, w) ==
  Returned(S, {m \in S.members : m.workspaceId = w})

\* TaskModel.countDocuments(query): the number of the tasks matching the query.
CountDocuments(matching) == Cardinality(matching)

\* dueDate: { $lt: currentDate }: a task without a due date does not match.
DueBefore(t, currentDate) == t.dueDate # Null /\ t.dueDate < currentDate

WorkspaceAnalyticsOverdueAnyStatus(S, w, currentDate) ==
  LET InWorkspace(t) == t.workspace = w
      Overdue(t) == t.workspace = w /\ DueBefore(t, currentDate)
      Completed(t) == t.workspace = w /\ t.status = DONE
  IN [outcome |-> "ok", store |-> S, ret |-> {},
      analytics |-> [totalTasks |-> CountDocuments({t \in S.tasks : InWorkspace(t)}),
                     overdueTask |-> CountDocuments({t \in S.tasks : Overdue(t)}),
                     completedTasks |-> CountDocuments({t \in S.tasks : Completed(t)})]]

getWorkspaceAnalyticsService(S, w, currentDate) ==
  LET InWorkspace(t) == t.workspace = w
      Overdue(t) == /\ t.workspace = w
                    /\ DueBefore(t, currentDate)
                    /\ t.status # DONE
      Completed(t) == t.workspace = w /\ t.status = DONE
  IN [outcome |-> "ok", store |-> S, ret |-> {},
      analytics |-> [totalTasks |-> CountDocuments({t \in S.tasks : InWorkspace(t)}),
                     overdueTask |-> CountDocuments({t \in S.tasks : Overdue(t)}),
                     completedTasks |-> CountDocuments({t \in S.tasks : Completed(t)})]]

ChangeRoleTransfersOwnership(S, w, memberId, roleId) ==
  IF WorkspaceById(S, w) = {} THEN Throw(S, "NotFoundException")
  ELSE IF RoleById(S, roleId) = {} THEN Throw(S, "NotFoundException")
  ELSE IF MembersOf(S, memberId, w) = {} THEN Throw(S, "Error")
  ELSE
    LET member == CHOOSE m \in MembersOf(S, memberId, w) :
                    \A o \in MembersOf(S, memberId, w) : m.id <= o.id
        workspace == CHOOSE x \in WorkspaceById(S, w) : TRUE
        owned == IF RoleNameOf(S, roleId) = OWNER
                   THEN [workspace EXCEPT !.owner = memberId]
                 ELSE workspace
    IN Returned([S EXCEPT !.members =
                   (@ \ {member}) \cup {[member EXCEPT !.role = roleId]},
                          !.workspaces = (@ \ {workspace}) \cup {owned}],
                {member.id})

ChangeRoleInAnyWorkspace(S, w, memberId, roleId) ==
  IF WorkspaceById(S, w) = {} THEN Throw(S, "NotFoundException")
  ELSE IF RoleById(S, roleId) = {} THEN Throw(S, "NotFoundException")
  ELSE IF MembersOfUser(S, memberId) = {} THEN Throw(S, "Error")
  ELSE
    LET member == CHOOSE m \in MembersOfUser(S, memberId) :
                    \A o \in MembersOfUser(S, memberId) : m.id <= o.id
    IN Returned([S EXCEPT !.members =
                   (@ \ {member}) \cup {[member EXCEPT !.role = roleId]}],
                {member.id})

changeMemberRoleService(S, w, memberId, roleId) ==
  IF WorkspaceById(S, w) = {} THEN Throw(S, "NotFoundException")
  ELSE IF RoleById(S, roleId) = {} THEN Throw(S, "NotFoundException")
  ELSE IF MembersOf(S, memberId, w) = {} THEN Throw(S, "Error")
  ELSE
    LET member == CHOOSE m \in MembersOf(S, memberId, w) :
                    \A o \in MembersOf(S, memberId, w) : m.id <= o.id
    IN Returned([S EXCEPT !.members =
                   (@ \ {member}) \cup {[member EXCEPT !.role = roleId]}],
                {member.id})

updateWorkspaceByIdService(S, w, name) ==
  IF WorkspaceById(S, w) = {} THEN Throw(S, "NotFoundException")
  ELSE
    LET workspace == CHOOSE x \in WorkspaceById(S, w) : TRUE
    IN Returned([S EXCEPT !.workspaces =
                   (@ \ {workspace}) \cup
                     {[workspace EXCEPT !.name = IF name # "" THEN name ELSE @]}],
                {w})

\* The steps of deleteWorkspaceService inside its transaction, each on the
\* transaction's working copy of the database.
DeleteManyProjects(S, w) ==
  [S EXCEPT !.projects = {p \in @ : p.workspace # w}]
DeleteManyTasksSkipped(S, w) == S
DeleteManyTasks(S, w) ==
  [S EXCEPT !.tasks = {t \in @ : t.workspace # w}]
DeleteManyMembers(S, w) ==
  [S EXCEPT !.members = {m \in @ : m.workspaceId # w}]
RepairCurrentWorkspace(S, w, u, pick) ==
  IF S.users[u].currentWorkspace = w
    THEN SaveUser(S, u, [S.users[u] EXCEPT !.currentWorkspace =
           IF pick = {} THEN Null ELSE (CHOOSE m \in pick : TRUE).workspaceId])
    ELSE S
DeleteOneWorkspace(S, w) ==
  [S EXCEPT !.workspaces = {x \in @ : x.id # w}]

Faults == {"none", "deleteProjects", "deleteTasks", "deleteMembers",
           "saveUser", "deleteWorkspace"}

CommitTransaction(before, working) == working
AbortTransactionKeepsWrites(before, working) == working
AbortTransaction(before, working) == before
EndSession(r) ==
  [outcome |-> r.outcome, store |-> r.store, ret |-> r.ret, session |-> "ended"]

DeleteWithoutOwnerCheck(S, w, u, fault, pick) ==
  IF WorkspaceById(S, w) = {} \/ ~UserExists(S, u)
    THEN Throw(AbortTransaction(S, S), "NotFoundException")
  ELSE Returned(CommitTransaction(S,
         DeleteOneWorkspace(RepairCurrentWorkspace(DeleteManyMembers(
           DeleteManyTasks(DeleteManyProjects(S, w), w), w), w, u, pick), w)),
         {w})

\* The body of deleteWorkspaceService between startTransaction and endSession.
\* `fault` names the write that fails, if one does; `pick` is what
\* findOne({ userId }) answers.
DeleteWorkspaceTransaction(S, w, u, fault, pick) ==
  IF WorkspaceById(S, w) = {}
    THEN Throw(AbortTransaction(S, S), "NotFoundException")
  ELSE IF (CHOOSE x \in WorkspaceById(S, w) : TRUE).owner # u
    THEN Throw(AbortTransaction(S, S), "BadRequestException")
  ELSE IF ~UserExists(S, u)
    THEN Throw(AbortTransaction(S, S), "NotFoundException")
  ELSE
    LET T1 == DeleteManyProjects(S, w)
        T2 == DeleteManyTasks(T1, w)
        T3 == DeleteManyMembers(T2, w)
        T4 == RepairCurrentWorkspace(T3, w, u, pick)
        T5 == DeleteOneWorkspace(T4, w)
    IN CASE fault = "deleteProjects" -> Throw(AbortTransaction(S, S), "Error")
         [] fault = "deleteTasks" -> Throw(AbortTransaction(S, T1), "Error")
         [] fault = "deleteMembers" -> Throw(AbortTransaction(S, T2), "Error")
         [] fault = "saveUser" /\ S.users[u].currentWorkspace = w
              -> Throw(AbortTransaction(S, T3), "Error")
         [] fault = "deleteWorkspace" -> Throw(AbortTransaction(S, T4), "Error")
         [] OTHER -> Returned(CommitTransaction(S, T5), {w})

deleteWorkspaceService(S, w, u, fault, pick) ==
  EndSession(DeleteWorkspaceTransaction(S, w, u, fault, pick))

\* What findOne({ userId }) can answer inside the transaction, after the
\* memberships of workspace w are deleted.
RemainingMembership(S, w, u) ==
  FindOne(MembersOfUser(DeleteManyMembers(S, w), u))

\* --------------------------------------------------------- member.service
\* getMemberRoleInWorkspace; member is what findOne answered, a set of at most
\* one Member (userId, workspaceId).
getMemberRoleInWorkspace(S, u, w, member) ==
  IF WorkspaceById(S, w) = {} THEN Throw(S, "NotFoundException")
  ELSE IF member = {}
    THEN [outcome |-> "UnauthorizedException", store |-> S, ret |-> {},
          errorCode |-> "ACCESS_UNAUTHORIZED"]
  ELSE [outcome |-> "ok", store |-> S, ret |-> {},
        role |-> RoleNameOf(S, (CHOOSE m \in member : TRUE).role)]

JoinWithoutMemberCheck(S, u, code) ==
  IF WorkspaceByInviteCode(S, code) = {} THEN Throw(S, "NotFoundException")
  ELSE IF RoleByName(S, MEMBER) = {} THEN Throw(S, "NotFoundException")
  ELSE
    LET workspace == CHOOSE x \in WorkspaceByInviteCode(S, code) : TRUE
        role == CHOOSE r \in RoleByName(S, MEMBER) : TRUE
        m == S.counters.members + 1
        member == [id |-> m, userId |-> u, workspaceId |-> workspace.id,
                   role |-> role.id]
    IN Returned(InsertMember(S, member), {workspace.id})

JoinWithOwnerRole(S, u, code) ==
  IF WorkspaceByInviteCode(S, code) = {} THEN Throw(S, "NotFoundException")
  ELSE
    LET workspace == CHOOSE x \in WorkspaceByInviteCode(S, code) : TRUE
    IN IF MembersOf(S, u, workspace.id) # {}
         THEN Throw(S, "BadRequestException")
       ELSE IF RoleByName(S, OWNER) = {} THEN Throw(S, "NotFoundException")
       ELSE
         LET role == CHOOSE r \in RoleByName(S, OWNER) : TRUE
             m == S.counters.members + 1
             member == [id |-> m, userId |-> u, workspaceId |-> workspace.id,
                        role |-> role.id]
         IN [outcome |-> "ok", store |-> InsertMember(S, member),
             ret |-> {workspace.id}, role |-> role.name]

joinWorkspaceByInviteService(S, u, code) ==
  IF WorkspaceByInviteCode(S, code) = {} THEN Throw(S, "NotFoundException")
  ELSE
    LET workspace == CHOOSE x \in WorkspaceByInviteCode(S, code) : TRUE
    IN IF MembersOf(S, u, workspace.id) # {}
         THEN Throw(S, "BadRequestException")
       ELSE IF RoleByName(S, MEMBER) = {} THEN Throw(S, "NotFoundException")
       ELSE
         LET role == CHOOSE r \in RoleByName(S, MEMBER) : TRUE
             m == S.counters.members + 1
             member == [id |-> m, userId |-> u, workspaceId |-> workspace.id,
                        role |-> role.id]
         IN [outcome |-> "ok", store |-> InsertMember(S, member),
             ret |-> {workspace.id}, role |-> role.name]

\* -------------------------------------------------------- project.service
createProjectService(S, u, w, name) ==
  LET p == S.counters.projects + 1
      project == [id |-> p, name |-> name, workspace |-> w, createdBy |-> u]
  IN Returned([S EXCEPT !.projects = @ \cup {project}, !.counters.projects = p],
              {p})

\* find({ workspace }).skip(skip).limit(pageSize): a page of the workspace's
\* projects. The sort names a field no project has, so it orders nothing and
\* the page is any pageSize of the projects after any skip of them.
ProjectPages(S, w, pageSize, pageNumber) ==
  LET all == {x \in S.projects : x.workspace = w}
      skip == (pageNumber - 1) * pageSize
      left == IF Cardinality(all) > skip THEN Cardinality(all) - skip ELSE 0
      size == IF left < pageSize THEN left ELSE pageSize
  IN {page \in SUBSET all : Cardinality(page) = size}

\* Math.ceil(totalCount / pageSize), for pageSize >= 1
Ceil(totalCount, pageSize) == (totalCount + pageSize - 1) \div pageSize

\* page is what find().skip().limit() answers: the sort is on createAt, which
\* no project has, so it puts the projects in no order.
getAllProjectInWorkspaceService(S, w, pageSize, pageNumber, page) ==
  LET totalCount == Cardinality({x \in S.projects : x.workspace = w})
  IN [outcome |-> "ok", store |-> S, ret |-> page,
      totalCount |-> totalCount,
      totalPages |-> Ceil(totalCount, pageSize),
      skip |-> (pageNumber - 1) * pageSize]

\* findOne({ _id: projectId, workspace: workspaceId })
ProjectInWorkspace(S, w, p) == {x \in ProjectById(S, p) : x.workspace = w}

getProjectByIdAndWorkspaceIdService(S, w, p) ==
  IF ProjectInWorkspace(S, w, p) = {} THEN Throw(S, "NotFoundException")
  ELSE Returned(S, ProjectInWorkspace(S, w, p))

\* findById(projectId), then the comparison of project.workspace with workspaceId
ProjectCheckedInWorkspace(S, w, p) ==
  {x \in ProjectById(S, p) : x.workspace = w}

\* { $count: "count" }: one document holding the number of documents that
\* reach the stage, and no document when none does.
CountStage(docs) ==
  IF docs = {} THEN <<>> ELSE <<[count |-> Cardinality(docs)]>>

\* facet[0]?.count || 0
FirstCount(facet) == IF facet = <<>> THEN 0 ELSE facet[1].count

\* ret is the set of tasks the aggregate's $match lets through.
getProjectAnalyticsService(S, w, p, currentDate) ==
  IF ProjectCheckedInWorkspace(S, w, p) = {} THEN Throw(S, "NotFoundException")
  ELSE
    LET matched == {t \in S.tasks : t.project = p}
        totalTasks == CountStage(matched)
        overdueTasks == CountStage({t \in matched :
                          DueBefore(t, currentDate) /\ t.status # DONE})
        completedTasks == CountStage({t \in matched : t.status = DONE})
    IN [outcome |-> "ok", store |-> S, ret |-> matched,
        analytics |-> [totalTasks |-> FirstCount(totalTasks),
                       overdueTasks |-> FirstCount(overdueTasks),
                       completedTasks |-> FirstCount(completedTasks)]]

updateProjectService(S, w, p, name) ==
  IF ProjectInWorkspace(S, w, p) = {} THEN Throw(S, "NotFoundException")
  ELSE
    LET project == CHOOSE x \in ProjectInWorkspace(S, w, p) : TRUE
        saved == [project EXCEPT !.name = IF name # "" THEN name ELSE @]
    IN Returned([S EXCEPT !.projects = (@ \ {project}) \cup {saved}], {saved})

DeleteProjectKeepsTasks(S, w, p) ==
  IF ProjectInWorkspace(S, w, p) = {} THEN Throw(S, "NotFoundException")
  ELSE
    LET project == CHOOSE x \in ProjectInWorkspace(S, w, p) : TRUE
    IN Returned([S EXCEPT !.projects = @ \ {project}], {project})

DeleteProjectOfAnyWorkspace(S, w, p) ==
  IF ProjectById(S, p) = {} THEN Throw(S, "NotFoundException")
  ELSE
    LET project == CHOOSE x \in ProjectById(S, p) : TRUE
        S1 == [S EXCEPT !.projects = @ \ {project}]
        S2 == [S1 EXCEPT !.tasks = {t \in @ : t.project # project.id}]
    IN Returned(S2, {project})

deleteProjectService(S, w, p) ==
  IF ProjectInWorkspace(S, w, p) = {} THEN Throw(S, "NotFoundException")
  ELSE
    LET project == CHOOSE x \in ProjectInWorkspace(S, w, p) : TRUE
        S1 == [S EXCEPT !.projects = @ \ {project}]
        S2 == [S1 EXCEPT !.tasks = {t \in @ : t.project # project.id}]
    IN Returned(S2, {project})

\* ----------------------------------------------------------- task.service
\* The fields of a request body that are present (an absent field is not in
\* the body's domain).
Present(body, f) == f \in DOMAIN body
Field(body, f, default) == IF Present(body, f) THEN body[f] ELSE default

CreateTaskWithoutMemberCheck(S, w, p, u, body) ==
  IF ProjectCheckedInWorkspace(S, w, p) = {} THEN Throw(S, "NotFoundException")
  ELSE
    LET assignedTo == Field(body, "assignedTo", NoUser)
        status == Field(body, "status", "")
        priority == Field(body, "priority", "")
        t == S.counters.tasks + 1
        task == [id |-> t, status |-> IF status # "" THEN status ELSE TODO,
                 priority |-> IF priority # "" THEN priority ELSE MEDIUM,
                 assignedTo |-> assignedTo, createdBy |-> u,
                 workspace |-> w, project |-> p,
                 dueDate |-> Field(body, "dueDate", Null)]
    IN Returned([S EXCEPT !.tasks = @ \cup {task}, !.counters.tasks = t],
                {task})

createTaskService(S, w, p, u, body) ==
  IF ProjectCheckedInWorkspace(S, w, p) = {} THEN Throw(S, "NotFoundException")
  ELSE
    LET assignedTo == Field(body, "assignedTo", NoUser)
        status == Field(body, "status", "")
        priority == Field(body, "priority", "")
    IN IF assignedTo # NoUser /\ MembersOf(S, assignedTo, w) = {}
         THEN Throw(S, "Error")
       ELSE
         LET t == S.counters.tasks + 1
             task == [id |-> t, status |-> IF status # "" THEN status ELSE TODO,
                      priority |-> IF priority # "" THEN priority ELSE MEDIUM,
                      assignedTo |-> assignedTo, createdBy |-> u,
                      workspace |-> w, project |-> p,
                      dueDate |-> Field(body, "dueDate", Null)]
         IN Returned([S EXCEPT !.tasks = @ \cup {task}, !.counters.tasks = t],
                     {task})

\* findByIdAndUpdate(taskId, { ...body }): the fields of the body are set.
FindByIdAndUpdate(task, body) ==
  [f \in DOMAIN task |-> IF Present(body, f) THEN body[f] ELSE task[f]]

UpdateTaskOfAnyProject(S, w, p, t, body) ==
  IF ProjectCheckedInWorkspace(S, w, p) = {} THEN Throw(S, "NotFoundException")
  ELSE IF TaskById(S, t) = {} THEN Throw(S, "NotFoundException")
  ELSE
    LET task == CHOOSE x \in TaskById(S, t) : TRUE
        updatedTask == FindByIdAndUpdate(task, body)
    IN Returned([S EXCEPT !.tasks = (@ \ {task}) \cup {updatedTask}],
                {updatedTask})

updateTaskService(S, w, p, t, body) ==
  IF ProjectCheckedInWorkspace(S, w, p) = {} THEN Throw(S, "NotFoundException")
  ELSE IF {x \in TaskById(S, t) : x.project = p} = {}
    THEN Throw(S, "NotFoundException")
  ELSE
    LET task == CHOOSE x \in TaskById(S, t) : TRUE
        updatedTask == FindByIdAndUpdate(task, body)
    IN Returned([S EXCEPT !.tasks = (@ \ {task}) \cup {updatedTask}],
                {updatedTask})

\* The query of getAllTasksService: the workspace, and the project filter
\* when one is given.
TaskQuery(S, w, filters) ==
  {t \in S.tasks : /\ t.workspace = w
                   /\ filters.projectId # Null => t.project = filters.projectId
                   /\ filters.status # {} => t.status \in filters.status}

\* sort({ createdAt: -1 }): newest first; ids are handed out in creation order.
RECURSIVE SortNewestFirst(_)
SortNewestFirst(docs) ==
  IF docs = {} THEN <<>>
  ELSE LET newest == CHOOSE d \in docs : \A o \in docs : o.id <= d.id
       IN <<newest>> \o SortNewestFirst(docs \ {newest})

\* skip(skip).limit(pageSize) of a sorted result
Page(sorted, skip, pageSize) ==
  {sorted[i] : i \in {j \in 1..Len(sorted) : j > skip /\ j <= skip + pageSize}}

getAllTasksService(S, w, filters, pageSize, pageNumber) ==
  LET skip == (pageNumber - 1) * pageSize
      query == TaskQuery(S, w, filters)
      totalCount == Cardinality(query)
  IN [outcome |-> "ok", store |-> S,
      ret |-> Page(SortNewestFirst(query), skip, pageSize),
      totalCount |-> totalCount,
      totalPages |-> Ceil(totalCount, pageSize),
      skip |-> skip]

getTaskByIdService(S, w, p, t) ==
  IF ProjectCheckedInWorkspace(S, w, p) = {} THEN Throw(S, "NotFoundException")
  ELSE
    LET found == {x \in TaskById(S, t) : x.workspace = w /\ x.project = p}
    IN IF found = {} THEN Throw(S, "Error") ELSE Returned(S, found)

TaskInAnyWorkspace(S, w, t) == TaskById(S, t)

\* findOneAndDelete({ _id: taskId, workspace: workspaceId })
TaskInWorkspace(S, w, t) == {x \in TaskById(S, t) : x.workspace = w}

deleteTaskService(S, w, t) ==
  IF TaskInWorkspace(S, w, t) = {} THEN Throw(S, "NotFoundException")
  ELSE Returned([S EXCEPT !.tasks = @ \ TaskInWorkspace(S, w, t)],
                TaskInWorkspace(S, w, t))

\* ---------------------------------------------------------------- actions
\* A call of a service that runs to its end before the next call starts: the
\* database becomes what the service left.
Call(r) ==
  /\ workspaces' = r.store.workspaces
  /\ projects' = r.store.projects
  /\ tasks' = r.store.tasks
  /\ members' = r.store.members
  /\ users' = r.store.users
  /\ roles' = r.store.roles
  /\ counters' = r.store.counters
  /\ UNCHANGED requests

\* Ids are unguessable: a caller can name an id only once it was handed out.
IssuedWorkspaces == 1..counters.workspaces
IssuedProjects == 1..counters.projects
IssuedTasks == 1..counters.tasks
IssuedRoles == 1..counters.roles
RoleIds == 0..(MaxSeeds * Len(RoleNames))

StatusBodies == {[status |-> s] : s \in TaskStatus \cup {""}}
UpdateBodies == {[status |-> s] : s \in TaskStatus}

\* The bodies a caller can send: any of status, priority and assignedTo, given
\* or left out; a status or priority may be empty, an assignee null.
TaskFields == {"status", "priority", "assignedTo"}
FullBodies ==
  [status : {"", DONE}, priority : {"", HIGH},
   assignedTo : UserArgs \cup {NoUser}]
TaskBodies ==
  {[f \in given |-> full[f]] : given \in SUBSET TaskFields, full \in FullBodies}
\* The bodies of an update: the assignee, when given, is null or one user.
UpdateTaskBodies ==
  {body \in TaskBodies :
     Present(body, "assignedTo") => body.assignedTo \in {NoUser, "u2"}}

CreateWorkspace ==
  \E u \in UserArgs, name \in CreateNames :
    /\ counters.workspaces < MaxWorkspaces
    /\ counters.members < MaxMembers
    /\ Call(createWorkspaceService(Store, u, name))

\* One run of the seeder script; a run may fail before its commit.
SeedRoles ==
  /\ counters.roles < MaxSeeds * Len(RoleNames)
  /\ \E failed \in BOOLEAN : Call([store |-> seedRoles(Store, failed)])

ChangeMemberRole ==
  \E w \in IssuedWorkspaces, u \in Users, r \in IssuedRoles :
    Call(changeMemberRoleService(Store, w, u, r))

UpdateWorkspaceById ==
  \E w \in IssuedWorkspaces, name \in Names :
    Call(updateWorkspaceByIdService(Store, w, name))

DeleteWorkspace ==
  \E w \in IssuedWorkspaces, u \in Users, fault \in Faults :
    \E pick \in RemainingMembership(Store, w, u) :
      Call(deleteWorkspaceService(Store, w, u, fault, pick))

JoinWorkspaceByInvite ==
  \E u \in Users, code \in IssuedWorkspaces :
    /\ counters.members < MaxMembers
    /\ Call(joinWorkspaceByInviteService(Store, u, code))

CreateProject ==
  \E w \in IssuedWorkspaces, name \in CreateNames :
    \E u \in Users :
      /\ counters.projects < MaxProjects
      /\ Call(createProjectService(Store, u, w, name))

UpdateProject ==
  \E w \in IssuedWorkspaces, p \in IssuedProjects, name \in Names \cup {""} :
    Call(updateProjectService(Store, w, p, name))

DeleteProject ==
  \E w \in IssuedWorkspaces, p \in IssuedProjects :
    Call(deleteProjectService(Store, w, p))

CreateTaskWith(bodies) ==
  \E w \in IssuedWorkspaces, p \in IssuedProjects, body \in bodies :
    \E u \in Users :
      /\ counters.tasks < MaxTasks
      /\ Call(createTaskService(Store, w, p, u, body))

CreateTask == CreateTaskWith(StatusBodies)

UpdateTask ==
  \E w \in IssuedWorkspaces, p \in IssuedProjects, t \in IssuedTasks :
    \E body \in UpdateBodies :
      Call(updateTaskService(Store, w, p, t, body))

DeleteTask ==
  \E w \in IssuedWorkspaces, t \in IssuedTasks :
    Call(deleteTaskService(Store, w, t))

Idle == [op |-> "idle", pc |-> "idle", u |-> NoUser, w |-> Null, p |-> Null,
         code |-> Null, role |-> "", roleId |-> Null, guard |-> ""]

Init ==
  /\ workspaces = {}
  /\ projects = {}
  /\ tasks = {}
  /\ members = {}
  /\ users = [u \in Users |-> [currentWorkspace |-> Null, password |-> <<>>]]
  /\ roles = SeededRoles
  /\ counters = [workspaces |-> 0, projects |-> 0, tasks |-> 0, members |-> 0,
                 roles |-> Len(RoleNames)]
  /\ requests = [s \in Slots |-> Idle]

\* The database before the seeder script has run.
InitUnseeded ==
  /\ workspaces = Unseeded.workspaces
  /\ projects = Unseeded.projects
  /\ tasks = Unseeded.tasks
  /\ members = Unseeded.members
  /\ users = Unseeded.users
  /\ roles = Unseeded.roles
  /\ counters = Unseeded.counters
  /\ requests = [s \in Slots |-> Idle]

\* The seeded database before any user is created.
InitNoUsers ==
  /\ workspaces = {}
  /\ projects = {}
  /\ tasks = {}
  /\ members = {}
  /\ users = [u \in {} |-> CreateUser(Plaintext)]
  /\ roles = SeededRoles
  /\ counters = [workspaces |-> 0, projects |-> 0, tasks |-> 0, members |-> 0,
                 roles |-> Len(RoleNames)]
  /\ requests = [s \in Slots |-> Idle]

\* ------------------------------------------------- requests, step by step
\* A request in flight runs from one await to the next in one step; between
\* two steps other requests may run.
InFlight == {s \in Slots : requests[s].pc # "idle"}
FreeSlot(s) == /\ s \notin InFlight
               /\ \A o \in Slots : o < s => o \in InFlight
AllDone == InFlight = {}

Write(S) ==
  /\ workspaces' = S.workspaces
  /\ projects' = S.projects
  /\ tasks' = S.tasks
  /\ members' = S.members
  /\ users' = S.users
  /\ roles' = S.roles
  /\ counters' = S.counters
ReadOnly ==
  UNCHANGED <<workspaces, projects, tasks, members, users, roles, counters>>

Step(s, request) == requests' = [requests EXCEPT ![s] = request]

\* A request ends, with a response or a thrown error: its slot is free again.
Finish(s) == Step(s, Idle)

Controllers ==
  {"getWorkspaceById", "getWorkspaceMembers", "getWorkspaceAnalytics",
   "createProject", "getAllProjectsInWorkspace", "getProjectByIdAndWorkspaceId"}

\* The controllers that call roleGuard between getMemberRoleInWorkspace and
\* their service.
CallsRoleGuard(c) ==
  c \in {"getWorkspaceMembers", "createProject", "getAllProjectsInWorkspace",
         "getProjectByIdAndWorkspaceId"}

\* A controller receives a request: it parses it, and calls
\* getMemberRoleInWorkspace unless it ends there.
BeginController(cs, limit) ==
  \E s \in Slots, c \in cs, u \in Users, w \in IssuedWorkspaces :
    \E p \in IF c = "getProjectByIdAndWorkspaceId" THEN IssuedProjects ELSE {Null} :
      /\ FreeSlot(s)
      /\ Cardinality(InFlight) < limit
      /\ Step(s, IF c = "getWorkspaceAnalytics"
                   THEN Idle
                   ELSE [Idle EXCEPT !.op = c, !.u = u, !.w = w, !.p = p,
                                     !.pc = "findWorkspace"])
      /\ ReadOnly

\* getMemberRoleInWorkspace: WorkspaceModel.findById
CtlFindWorkspace ==
  \E s \in InFlight :
    /\ requests[s].op \in Controllers
    /\ requests[s].pc = "findWorkspace"
    /\ IF WorkspaceById(Store, requests[s].w) = {}
         THEN Finish(s)
         ELSE Step(s, [requests[s] EXCEPT !.pc = "findMember"])
    /\ ReadOnly

\* getMemberRoleInWorkspace: MemberModel.findOne, and the return of the role
CtlFindMember ==
  \E s \in InFlight :
    /\ requests[s].op \in Controllers
    /\ requests[s].pc = "findMember"
    /\ \E pick \in FindOne(MembersOf(Store, requests[s].u, requests[s].w)) :
         IF pick = {}
           THEN Finish(s)
           ELSE Step(s, [requests[s] EXCEPT
                  !.role = RoleNameOf(Store, (CHOOSE m \in pick : TRUE).role),
                  !.pc = IF CallsRoleGuard(requests[s].op) THEN "roleGuard"
                         ELSE "service"])
    /\ ReadOnly

\* The permissions each controller hands to roleGuard.
RequiredPermissions(c) ==
  IF c = "createProject" THEN {CREATE_PROJECT} ELSE {VIEW_ONLY}

\* roleGuard(role, requiredPermissions): whether it returns (it throws when the
\* role's permission list lacks a required permission, or there is no list).
roleGuard(role, requiredPermissions) ==
  /\ role \in Roles
  /\ requiredPermissions \subseteq RolePermissions[role]

\* roleGuard(role, [permission]) returns, or throws and ends the request.
CtlRoleGuard ==
  \E s \in InFlight :
    /\ requests[s].pc = "roleGuard"
    /\ IF roleGuard(requests[s].role, RequiredPermissions(requests[s].op))
         THEN Step(s, [requests[s] EXCEPT !.guard = "passed", !.pc = "service"])
         ELSE Finish(s)
    /\ ReadOnly

\* What the controller's service returns.
ControllerService(S, q, page) ==
  CASE q.op = "getWorkspaceById" -> getWorkspaceByIdService(S, q.w)
    [] q.op = "getWorkspaceMembers" -> getWorkspaceMembersService(S, q.w)
    [] q.op = "createProject" -> createProjectService(S, q.u, q.w, "n1")
    [] q.op = "getAllProjectsInWorkspace" ->
         getAllProjectInWorkspaceService(S, q.w, 1, 1, page)
    [] q.op = "getProjectByIdAndWorkspaceId" ->
         getProjectByIdAndWorkspaceIdService(S, q.w, q.p)

CtlService ==
  \E s \in InFlight :
    /\ requests[s].op \in Controllers
    /\ requests[s].pc = "service"
    /\ requests[s].op = "createProject" => counters.projects < MaxProjects
    /\ \E page \in ProjectPages(Store, requests[s].w, 1, 1) :
         /\ Write(ControllerService(Store, requests[s], page).store)
         /\ Finish(s)

\* joinWorkspaceByInviteService, await by await.
BeginJoin(limit) ==
  \E s \in Slots, u \in Users, code \in IssuedWorkspaces :
    /\ FreeSlot(s)
    /\ Cardinality(InFlight) < limit
    /\ Step(s, [Idle EXCEPT !.op = "join", !.u = u, !.code = code,
                 !.pc = "findWorkspace"])
    /\ ReadOnly

JoinFindWorkspace ==
  \E s \in InFlight :
    /\ requests[s].op = "join"
    /\ requests[s].pc = "findWorkspace"
    /\ IF WorkspaceByInviteCode(Store, requests[s].code) = {}
         THEN Finish(s)
         ELSE Step(s, [requests[s] EXCEPT !.pc = "findMember",
                !.w = (CHOOSE x \in WorkspaceByInviteCode(Store, requests[s].code) :
                         TRUE).id])
    /\ ReadOnly

\* The check for an existing member, and the lookup of the MEMBER role (a read
\* of data no request writes, so it is taken in the same step).
JoinFindMember ==
  \E s \in InFlight :
    /\ requests[s].op = "join"
    /\ requests[s].pc = "findMember"
    /\ IF MembersOf(Store, requests[s].u, requests[s].w) # {}
         THEN Finish(s)
         ELSE IF RoleByName(Store, MEMBER) = {} THEN Finish(s)
         ELSE Step(s, [requests[s] EXCEPT !.pc = "save", !.role = MEMBER,
                !.roleId = (CHOOSE r \in RoleByName(Store, MEMBER) : TRUE).id])
    /\ ReadOnly

JoinSave ==
  \E s \in InFlight :
    /\ requests[s].op = "join"
    /\ requests[s].pc = "save"
    /\ counters.members < MaxMembers
    /\ LET m == counters.members + 1
           member == [id |-> m, userId |-> requests[s].u,
                      workspaceId |-> requests[s].w,
                      role |-> requests[s].roleId]
       IN Write(InsertMember(Store, member))
    /\ Finish(s)

\* createTaskService (of a task assigned to nobody), await by await.
BeginCreateTask(limit) ==
  \E s \in Slots, w \in IssuedWorkspaces, p \in IssuedProjects :
    \E u \in Users :
      /\ FreeSlot(s)
      /\ Cardinality(InFlight) < limit
      /\ Step(s, [Idle EXCEPT !.op = "createTask", !.u = u, !.w = w, !.p = p,
                   !.pc = "findProject"])
      /\ ReadOnly

TaskFindProject ==
  \E s \in InFlight :
    /\ requests[s].op = "createTask"
    /\ requests[s].pc = "findProject"
    /\ IF ProjectCheckedInWorkspace(Store, requests[s].w, requests[s].p) = {}
         THEN Finish(s)
         ELSE Step(s, [requests[s] EXCEPT !.pc = "save"])
    /\ ReadOnly

TaskSave ==
  \E s \in InFlight :
    /\ requests[s].op = "createTask"
    /\ requests[s].pc = "save"
    /\ counters.tasks < MaxTasks
    /\ LET t == counters.tasks + 1
           task == [id |-> t, status |-> TODO, priority |-> MEDIUM,
                    assignedTo |-> NoUser,
                    createdBy |-> requests[s].u, workspace |-> requests[s].w,
                    project |-> requests[s].p, dueDate |-> Null]
       IN Write([Store EXCEPT !.tasks = @ \cup {task}, !.counters.tasks = t])
    /\ Finish(s)

\* ---------------------------------------------------------- specifications
CreateTodoTask == CreateTaskWith({[status |-> ""]})

\* Workspaces with their members, projects and tasks, and the cascade of a
\* workspace's deletion.
Next ==
  \/ CreateWorkspace
  \/ JoinWorkspaceByInvite
  \/ DeleteWorkspace
  \/ CreateProject
  \/ CreateTodoTask

Spec == Init /\ [][Next]_vars

\* Workspaces and memberships.
NextMembers ==
  \/ CreateWorkspace
  \/ JoinWorkspaceByInvite
  \/ ChangeMemberRole
  \/ DeleteWorkspace

SpecMembers == Init /\ [][NextMembers]_vars

\* Projects and tasks.
NextTasks ==
  \/ CreateWorkspace
  \/ DeleteWorkspace
  \/ CreateProject
  \/ UpdateProject
  \/ DeleteProject
  \/ CreateTask
  \/ UpdateTask
  \/ DeleteTask

SpecTasks == Init /\ [][NextTasks]_vars

\* Workspaces that are renamed, joined and filled with projects and tasks, and
\* whose members change role.
NextOwner ==
  \/ CreateWorkspace
  \/ UpdateWorkspaceById
  \/ JoinWorkspaceByInvite
  \/ ChangeMemberRole
  \/ CreateProject
  \/ CreateTodoTask

SpecOwner == Init /\ [][NextOwner]_vars

\* The controllers, one request at a time, called by owners, by members and
\* by users who are neither.
NextControllers ==
  \/ CreateWorkspace
  \/ JoinWorkspaceByInvite
  \/ BeginController(Controllers, 1)
  \/ CtlFindWorkspace
  \/ CtlFindMember
  \/ CtlRoleGuard
  \/ CtlService

SpecControllers == Init /\ [][NextControllers]_vars

\* A workspace is deleted while a request that targets it is in flight.
NextDeleteRace ==
  \/ CreateWorkspace
  \/ DeleteWorkspace
  \/ BeginController({"createProject"}, 1)
  \/ CtlFindWorkspace
  \/ CtlFindMember
  \/ CtlRoleGuard
  \/ CtlService
  \/ BeginCreateTask(1)
  \/ TaskFindProject
  \/ TaskSave
  \/ BeginJoin(1)
  \/ JoinFindWorkspace
  \/ JoinFindMember
  \/ JoinSave

SpecDeleteRace == Init /\ [][NextDeleteRace]_vars

\* Requests to join a workspace, in flight together.
NextJoinRace ==
  \/ CreateWorkspace
  \/ BeginJoin(MaxRequests)
  \/ JoinFindWorkspace
  \/ JoinFindMember
  \/ JoinSave

SpecJoinRace == Init /\ [][NextJoinRace]_vars

\* Tasks created with and without a status, a priority and an assignee, in
\* workspaces with members who joined.
AssignBodies == {[assignedTo |-> a, priority |-> HIGH] : a \in UserArgs}
CreateAssignedTask == CreateTaskWith(AssignBodies)

NextCreateTask ==
  \/ CreateWorkspace
  \/ JoinWorkspaceByInvite
  \/ CreateProject
  \/ CreateTodoTask
  \/ CreateAssignedTask

SpecCreateTask == Init /\ [][NextCreateTask]_vars

\* Tasks with and without due dates, created, completed, reopened and deleted.
DatedBodies ==
  {[status |-> st, dueDate |-> d] : st \in TaskStatus, d \in DueDates}
    \cup {[status |-> TODO]}
CreateDatedTask == CreateTaskWith(DatedBodies)

NextAnalytics ==
  \/ CreateWorkspace
  \/ CreateProject
  \/ CreateDatedTask
  \/ UpdateTask
  \/ DeleteTask

SpecAnalytics == Init /\ [][NextAnalytics]_vars

\* A user is created with a password.
RegisterUser ==
  \E u \in Users \ DOMAIN users :
    Call([store |-> [Store EXCEPT !.users =
           [x \in DOMAIN users \cup {u} |->
              IF x = u THEN CreateUser(Plaintext) ELSE users[x]]]])

\* The services that save a user, called by users who have a password.
NextPasswords ==
  \/ RegisterUser
  \/ CreateWorkspace
  \/ JoinWorkspaceByInvite
  \/ DeleteWorkspace

SpecPasswords == InitNoUsers /\ [][NextPasswords]_vars

\* Tasks created with an assignee and given another by an update, in
\* workspaces that members join and owners delete.
ReassignBodies == {[assignedTo |-> a] : a \in Users \cup {NoUser}}
ReassignTask ==
  \E w \in IssuedWorkspaces, p \in IssuedProjects, t \in IssuedTasks :
    \E body \in ReassignBodies :
      Call(updateTaskService(Store, w, p, t, body))

NextAssign ==
  \/ CreateWorkspace
  \/ JoinWorkspaceByInvite
  \/ DeleteWorkspace
  \/ CreateProject
  \/ CreateAssignedTask
  \/ ReassignTask

SpecAssign == Init /\ [][NextAssign]_vars

\* The seeder script, run before and between the calls that use the roles.
NextRoles ==
  \/ SeedRoles
  \/ CreateWorkspace
  \/ JoinWorkspaceByInvite
  \/ ChangeMemberRole

SpecRoles == InitUnseeded /\ [][NextRoles]_vars

\* ------------------------------------------------------------------ claims
\* What deleteWorkspaceService can return in the current state: every caller,
\* every write that may fail, every answer of findOne.
DeleteResults(w, u) ==
  {deleteWorkspaceService(Store, w, u, fault, pick) :
     fault \in Faults, pick \in RemainingMembership(Store, w, u)}

\* C2: when deleteWorkspaceService(W, owner) returns, workspace W is gone, no
\* project, task or member of W remains, and the projects, tasks and members of
\* the other workspaces are the ones there were before the call.
C2_DeleteCascades ==
  \A w \in IssuedWorkspaces, u \in UserArgs :
    \A r \in DeleteResults(w, u) :
      r.outcome = "ok" =>
        /\ WorkspaceById(r.store, w) = {}
        /\ r.store.projects = {p \in projects : p.workspace # w}
        /\ r.store.tasks = {t \in tasks : t.workspace # w}
        /\ r.store.members = {m \in members : m.workspaceId # w}
        /\ r.store.workspaces = {x \in workspaces : x.id # w}

\* A workspace was deleted together with a project, a task and memberships,
\* while the other workspace keeps its project, its task and its member.
C2_Witness ==
  /\ counters.workspaces = 2 /\ Cardinality(workspaces) = 1
  /\ counters.projects = 2 /\ Cardinality(projects) = 1
  /\ counters.tasks = 2 /\ Cardinality(tasks) = 1
  /\ counters.members = 3 /\ Cardinality(members) = 1

\* C3 (as claimed): when deleteWorkspaceService(W, owner) returns, no user has
\* currentWorkspace = W, and the owner's currentWorkspace, if it was W, is the
\* workspace of one of the owner's remaining memberships, or null without one.
C3_NoUserPointsAtDeleted ==
  \A w \in IssuedWorkspaces, u \in Users :
    \A r \in DeleteResults(w, u) :
      r.outcome = "ok" =>
        /\ \A x \in Users : r.store.users[x].currentWorkspace # w
        /\ users[u].currentWorkspace = w =>
             LET rest == {m \in r.store.members : m.userId = u}
             IN IF rest = {}
                  THEN r.store.users[u].currentWorkspace = Null
                  ELSE r.store.users[u].currentWorkspace
                         \in {m.workspaceId : m \in rest}

\* C4: a deleteWorkspaceService that throws (workspace not found, caller not
\* the owner, user not found, a failed write inside the transaction) leaves
\* every collection as it was, and the session is ended whether it throws or
\* returns.
C4_AllOrNothing ==
  \A w \in WorkspaceIds, u \in UserArgs :
    \A r \in DeleteResults(w, u) :
      /\ r.session = "ended"
      /\ r.outcome # "ok" => r.store = Store

\* The owner's deletion of a workspace that holds a project, a task and two
\* members, and is the owner's current workspace, fails at its last write,
\* after every earlier write of the transaction was made.
C4_Witness ==
  \E w \in IssuedWorkspaces, u \in Users :
    \E pick \in RemainingMembership(Store, w, u) :
      LET r == deleteWorkspaceService(Store, w, u, "deleteWorkspace", pick)
          T == RepairCurrentWorkspace(
                 DeleteManyMembers(DeleteManyTasks(DeleteManyProjects(Store, w), w), w),
                 w, u, pick)
      IN /\ r.outcome = "Error"
         /\ T.projects # projects
         /\ T.tasks # tasks
         /\ Cardinality(members \ T.members) = 2
         /\ T.users # users
         /\ Cardinality(workspaces) = 2

\* C7: at most one Member record for each (user, workspace) pair.
C7_MemberUnique ==
  \A m1, m2 \in members :
    (m1.userId = m2.userId /\ m1.workspaceId = m2.workspaceId) => m1 = m2

\* A workspace with two members, one of them joined by invite and since given
\* another role, after another workspace was deleted.
C7_Witness ==
  \E m1, m2 \in members :
    /\ m1.workspaceId = m2.workspaceId
    /\ m1.userId # m2.userId
    /\ RoleNameOf(Store, m2.role) = ADMIN
    /\ Cardinality(workspaces) < counters.workspaces

\* C1 (as claimed): a controller is at the call of its service only in a
\* request in which getMemberRoleInWorkspace returned a role and roleGuard
\* then checked it and let it pass.
C1_ServiceAfterRoleAndGuard ==
  \A s \in Slots :
    (requests[s].op \in Controllers /\ requests[s].pc = "service") =>
      /\ requests[s].role \in Roles
      /\ requests[s].guard = "passed"

\* C5: every task's project exists and is of the task's workspace.
C5_TaskInItsProjectsWorkspace ==
  \A t \in tasks :
    \E x \in projects : x.id = t.project /\ x.workspace = t.workspace

\* A task set to DONE in a renamed project, after another task and another
\* workspace were deleted.
C5_Witness ==
  /\ \E t \in tasks, x \in projects :
       /\ t.project = x.id
       /\ t.status = DONE
       /\ x.name = "n2"
  /\ Cardinality(tasks) < counters.tasks
  /\ Cardinality(workspaces) < counters.workspaces

\* The workspaces that were deleted: their ids were handed out and no
\* workspace has them.
Deleted == IssuedWorkspaces \ {x.id : x \in workspaces}

\* C6 (as claimed): once every request has finished, no project, task or
\* member is of a deleted workspace.
C6_CoherentAfterDeleteRace ==
  AllDone =>
    /\ \A x \in projects : x.workspace \notin Deleted
    /\ \A t \in tasks : t.workspace \notin Deleted
    /\ \A m \in members : m.workspaceId \notin Deleted

\* C8 (as claimed): once the requests to join have finished, at most one Member
\* record exists for each (user, workspace) pair.
C8_MemberUniqueAfterJoins ==
  AllDone =>
    \A m1, m2 \in members :
      (m1.userId = m2.userId /\ m1.workspaceId = m2.workspaceId) => m1.id = m2.id

\* The documents of a collection that a call added, removed or changed.
Touched(before, after) == (before \ after) \cup (after \ before)

\* The projects and the tasks that are of another workspace than w.
ForeignProject(w, p) == \E x \in projects : x.id = p /\ x.workspace # w
ForeignTask(w, t) == \E x \in tasks : x.id = t /\ x.workspace # w

\* What a call with workspace argument w may do: return and touch only
\* projects and tasks of w, and, when it was given the id of a project or task
\* of another workspace, fail and touch nothing.
WithinTenant(r, w, foreign) ==
  /\ \A x \in r.ret : x.workspace = w
  /\ \A x \in Touched(projects, r.store.projects) : x.workspace = w
  /\ \A x \in Touched(tasks, r.store.tasks) : x.workspace = w
  /\ foreign => (r.outcome # "ok" /\ r.store = Store)

\* C10: the project and task services called with workspace W return, change
\* and delete only projects and tasks of W; the id of a project or task of
\* another workspace gives an error (from getAllTasksService an empty list) and
\* leaves everything as it was.
C10_TenancyBoundary ==
  \A w \in WorkspaceIds, p \in ProjectIds, t \in TaskIds :
    /\ WithinTenant(getProjectByIdAndWorkspaceIdService(Store, w, p), w,
                    ForeignProject(w, p))
    /\ \A currentDate \in Dates :
         WithinTenant(getProjectAnalyticsService(Store, w, p, currentDate), w,
                      ForeignProject(w, p))
    /\ \A name \in Names \cup {""} :
         WithinTenant(updateProjectService(Store, w, p, name), w,
                      ForeignProject(w, p))
    /\ WithinTenant(deleteProjectService(Store, w, p), w, ForeignProject(w, p))
    /\ WithinTenant(getTaskByIdService(Store, w, p, t), w,
                    ForeignProject(w, p) \/ ForeignTask(w, t))
    /\ \A body \in UpdateBodies :
         WithinTenant(updateTaskService(Store, w, p, t, body), w,
                      ForeignProject(w, p) \/ ForeignTask(w, t))
    /\ WithinTenant(deleteTaskService(Store, w, t), w, ForeignTask(w, t))
    /\ \A projectId \in {Null, p}, pageSize \in 1..MaxTasks, pageNumber \in 1..2 :
         LET r == getAllTasksService(Store, w,
                    [projectId |-> projectId, status |-> {}],
                    pageSize, pageNumber)
         IN /\ WithinTenant(r, w, FALSE)
            /\ r.store = Store
            /\ (projectId # Null /\ ForeignProject(w, projectId)) => r.ret = {}

\* Two workspaces, each with a project and a task of it, one task set to DONE
\* by a call with its own workspace and project; the same call with the other
\* workspace's task is refused.
C10_Witness ==
  \E x1, x2 \in projects, t1, t2 \in tasks :
    /\ x1.workspace # x2.workspace
    /\ t1.project = x1.id /\ t1.workspace = x1.workspace
    /\ t2.project = x2.id /\ t2.workspace = x2.workspace
    /\ t1.status = DONE
    /\ t2.status = TODO
    /\ updateTaskService(Store, x1.workspace, x1.id, t2.id,
                         [status |-> DONE]).outcome = "NotFoundException"
    /\ deleteTaskService(Store, x1.workspace, t2.id).outcome = "NotFoundException"
    /\ deleteTaskService(Store, x1.workspace, t1.id).outcome = "ok"

\* A step keeps the owner of every workspace there is, and a workspace that
\* appears in it is the one createWorkspaceService makes for its owner, with
\* the owner's membership and current workspace.
OwnerKept ==
  /\ \A x \in workspaces : \A y \in workspaces' : y.id = x.id => y.owner = x.owner
  /\ \A y \in workspaces' :
       y.id \notin {x.id : x \in workspaces} =>
         LET r == createWorkspaceService(Store, y.owner, y.name)
         IN /\ y.owner \in Users
            /\ r.outcome = "ok"
            /\ workspaces' = r.store.workspaces
            /\ members' = r.store.members
            /\ users' = r.store.users

\* The project and task services that change or delete leave the workspaces
\* as they are, whatever they are called with.
WorkspacesKept ==
  \A w \in IssuedWorkspaces, p \in IssuedProjects, t \in IssuedTasks :
    /\ \A name \in Names :
         updateProjectService(Store, w, p, name).store.workspaces = workspaces
    /\ deleteProjectService(Store, w, p).store.workspaces = workspaces
    /\ \A body \in UpdateBodies :
         updateTaskService(Store, w, p, t, body).store.workspaces = workspaces
    /\ deleteTaskService(Store, w, t).store.workspaces = workspaces

\* C9: a workspace's owner is the user whose createWorkspaceService call made
\* it, and no call of updateWorkspaceByIdService, changeMemberRoleService,
\* joinWorkspaceByInviteService or of a project or task service changes it.
C9_OwnerIsCreator == [][OwnerKept]_vars /\ []WorkspacesKept

\* A renamed workspace that holds a project and a task, with a member who is
\* not its owner and was given the OWNER role, while its owner's own membership
\* was given another role.
C9_Witness ==
  \E x \in workspaces, m1, m2 \in members :
    /\ x.name = "n2"
    /\ m1.workspaceId = x.id /\ m1.userId = x.owner
    /\ RoleNameOf(Store, m1.role) = MEMBER
    /\ m2.workspaceId = x.id /\ m2.userId # x.owner
    /\ RoleNameOf(Store, m2.role) = OWNER
    /\ \E t \in tasks : t.workspace = x.id

\* C11: once seeded there is exactly one Role per name of RolePermissions, with
\* that name's permissions, and no step, a further run of seedRoles included,
\* changes the id, the name or the permissions of a Role that exists.
OneRolePerName ==
  \A name \in Roles :
    /\ Cardinality(RoleByName(Store, name)) = 1
    /\ \A r \in RoleByName(Store, name) : r.permissions = RolePermissions[name]
ExistingRolesKept == \A r \in roles : r \in roles'
C11_RolesImmutable ==
  /\ [](roles # {} => OneRolePerName)
  /\ [][ExistingRolesKept]_vars

\* C12: whenever createProjectController stands at its call of
\* createProjectService(userId, workspaceId, body), a Member (userId,
\* workspaceId) exists whose role grants CREATE_PROJECT, and the project the
\* service saves has workspace = workspaceId and createdBy = userId.
Grants(S, member, permission) ==
  \E r \in RoleById(S, member.role) : permission \in r.permissions
C12_ProjectCreatedByMember ==
  \A s \in InFlight :
    (requests[s].op = "createProject" /\ requests[s].pc = "service") =>
      /\ \E m \in MembersOf(Store, requests[s].u, requests[s].w) :
           Grants(Store, m, CREATE_PROJECT)
      /\ \A p \in ControllerService(Store, requests[s], {}).store.projects
                  \ projects :
           p.workspace = requests[s].w /\ p.createdBy = requests[s].u

\* C13: getMemberRoleInWorkspace(user, W) changes nothing and has three
\* outcomes, decided in this order: NotFoundException when W does not exist;
\* UnauthorizedException (ACCESS_UNAUTHORIZED) when W exists and no Member
\* (user, W) does; otherwise it returns the name of the role of that Member.
C13_MemberRoleOutcomes ==
  \A u \in UserArgs, w \in WorkspaceIds :
    \A member \in FindOne(MembersOf(Store, u, w)) :
      LET r == getMemberRoleInWorkspace(Store, u, w, member)
      IN /\ r.store = Store
         /\ IF WorkspaceById(Store, w) = {}
              THEN r.outcome = "NotFoundException"
            ELSE IF MembersOf(Store, u, w) = {}
              THEN /\ r.outcome = "UnauthorizedException"
                   /\ r.errorCode = "ACCESS_UNAUTHORIZED"
            ELSE /\ r.outcome = "ok"
                 /\ r.role \in Roles
                 /\ \E m \in member :
                      \E role \in RoleById(Store, m.role) : role.name = r.role

\* C14: deleteWorkspaceService(W, u) for a workspace W and a u who is not its
\* owner, a member of W of any role included, throws BadRequestException and
\* removes no workspace, project, task or member and changes no user.
C14_OnlyOwnerDeletes ==
  \A x \in workspaces, u \in UserArgs :
    u # x.owner =>
      \A r \in DeleteResults(x.id, u) :
        /\ r.outcome = "BadRequestException"
        /\ r.store = Store

\* A workspace with a project, a task and a member who is not its owner and
\* whose currentWorkspace it is not: that member's call is one of the cases.
C14_Witness ==
  \E x \in workspaces, m \in members :
    /\ m.workspaceId = x.id /\ m.userId # x.owner
    /\ \E p \in projects : p.workspace = x.id
    /\ \E t \in tasks : t.workspace = x.id
    /\ users[x.owner].currentWorkspace = x.id

\* C15: createWorkspaceService(u, body) for an existing user u, with the OWNER
\* role seeded, creates exactly one Workspace, owned by u, and exactly one
\* Member (u, that workspace) with the OWNER role, and sets u.currentWorkspace
\* to that workspace; when u does not exist or there is no OWNER role it throws
\* NotFoundException and creates nothing.
C15_CreateWorkspace ==
  \A u \in UserArgs, name \in Names :
    LET r == createWorkspaceService(Store, u, name)
        newWorkspaces == r.store.workspaces \ workspaces
        newMembers == r.store.members \ members
    IN IF UserExists(Store, u) /\ RoleByName(Store, OWNER) # {}
         THEN /\ r.outcome = "ok"
              /\ workspaces \subseteq r.store.workspaces
              /\ members \subseteq r.store.members
              /\ Cardinality(newWorkspaces) = 1
              /\ Cardinality(newMembers) = 1
              /\ \A x \in newWorkspaces, m \in newMembers :
                   /\ x.owner = u
                   /\ WorkspaceById(Store, x.id) = {}
                   /\ m.userId = u /\ m.workspaceId = x.id
                   /\ RoleNameOf(r.store, m.role) = OWNER
                   /\ r.store.users[u].currentWorkspace = x.id
              /\ \A o \in Users \ {u} : r.store.users[o] = users[o]
              /\ r.store.projects = projects /\ r.store.tasks = tasks
              /\ r.store.roles = roles
         ELSE /\ r.outcome = "NotFoundException"
              /\ r.store = Store

\* After a second run of the seeder, two users each created a workspace: each
\* is the owner, has its one membership there and has it as currentWorkspace.
C15_Witness ==
  /\ counters.roles = 2 * Len(RoleNames)
  /\ Cardinality(workspaces) = 2
  /\ \A x \in workspaces :
       /\ users[x.owner].currentWorkspace = x.id
       /\ Cardinality(MembersOf(Store, x.owner, x.id)) = 1
  /\ \E x, y \in workspaces : x.owner # y.owner

\* C16: deleteProjectService(W, P), when project P exists with workspace = W,
\* removes P and every task with project = P and leaves every other project
\* and task as it was; when P does not exist or is of another workspace it
\* throws NotFoundException and deletes nothing.
C16_DeleteProject ==
  \A w \in WorkspaceIds, p \in ProjectIds :
    LET r == deleteProjectService(Store, w, p)
    IN IF \E x \in projects : x.id = p /\ x.workspace = w
         THEN /\ r.outcome = "ok"
              /\ ProjectById(r.store, p) = {}
              /\ \A t \in r.store.tasks : t.project # p
              /\ r.store.projects = {x \in projects : x.id # p}
              /\ r.store.tasks = {t \in tasks : t.project # p}
              /\ r.store.workspaces = workspaces
              /\ r.store.members = members
              /\ r.store.users = users
         ELSE /\ r.outcome = "NotFoundException"
              /\ r.store = Store

\* With both workspaces still there, one of two projects was deleted together
\* with its task, and the other project keeps its task.
C16_Witness ==
  /\ Cardinality(workspaces) = 2 /\ counters.workspaces = 2
  /\ counters.projects = 2 /\ Cardinality(projects) = 1
  /\ counters.tasks = 2 /\ Cardinality(tasks) = 1
  /\ \A t \in tasks : \E x \in projects : t.project = x.id

\* C17: createTaskService(W, P, u, body) throws NotFoundException and creates
\* nothing when project P is missing or is not of workspace W; it throws and
\* creates nothing when body.assignedTo is given and no Member (assignedTo, W)
\* exists; otherwise it saves exactly one task with workspace = W, project = P,
\* createdBy = u, priority MEDIUM and status TODO where the body gives none.
Given(body, f) == Present(body, f) /\ body[f] \notin {"", NoUser}
C17_CreateTask ==
  \A w \in WorkspaceIds, p \in ProjectIds, u \in Users, body \in TaskBodies :
    LET r == createTaskService(Store, w, p, u, body)
        newTasks == r.store.tasks \ tasks
    IN IF ~\E x \in projects : x.id = p /\ x.workspace = w
         THEN r.outcome = "NotFoundException" /\ r.store = Store
       ELSE IF /\ Given(body, "assignedTo")
               /\ MembersOf(Store, body.assignedTo, w) = {}
         THEN r.outcome # "ok" /\ r.store = Store
       ELSE /\ r.outcome = "ok"
            /\ tasks \subseteq r.store.tasks
            /\ Cardinality(newTasks) = 1
            /\ \A t \in newTasks :
                 /\ TaskById(Store, t.id) = {}
                 /\ t.workspace = w /\ t.project = p /\ t.createdBy = u
                 /\ t.priority = IF Given(body, "priority") THEN body.priority
                                 ELSE MEDIUM
                 /\ t.status = IF Given(body, "status") THEN body.status
                               ELSE TODO
                 /\ t.assignedTo = IF Given(body, "assignedTo")
                                     THEN body.assignedTo ELSE NoUser
            /\ [r.store EXCEPT !.tasks = tasks, !.counters = counters] = Store

\* Two workspaces with a project each, the owner of one no member of the
\* other; a task was created with the defaults, and one with priority HIGH
\* assigned to a member who is not the owner.
C17_Witness ==
  /\ \E x, y \in workspaces :
       /\ MembersOf(Store, x.owner, y.id) = {}
       /\ \E px, py \in projects : px.workspace = x.id /\ py.workspace = y.id
  /\ \E t1, t2 \in tasks :
       /\ t1.status = TODO /\ t1.priority = MEDIUM /\ t1.assignedTo = NoUser
       /\ t2.priority = HIGH /\ t2.assignedTo # NoUser
       /\ \E x \in workspaces : x.id = t2.workspace /\ x.owner # t2.assignedTo

\* C18: updateTaskService(W, P, T, body) changes state only when project P
\* exists with workspace = W and task T exists with project = P; in every
\* other case it throws NotFoundException and no task changes. On success only
\* task T changes, only in the fields the body gives, and T.project,
\* T.workspace and T.createdBy keep their values.
C18_UpdateTask ==
  \A w \in WorkspaceIds, p \in ProjectIds, t \in TaskIds :
   \A body \in UpdateTaskBodies :
    LET r == updateTaskService(Store, w, p, t, body)
    IN IF /\ \E x \in projects : x.id = p /\ x.workspace = w
          /\ \E x \in tasks : x.id = t /\ x.project = p
         THEN /\ r.outcome = "ok"
              /\ {x \in r.store.tasks : x.id # t} = {x \in tasks : x.id # t}
              /\ \A old \in TaskById(Store, t) :
                   /\ Cardinality(TaskById(r.store, t)) = 1
                   /\ \A new \in TaskById(r.store, t) :
                        /\ \A f \in DOMAIN old :
                             new[f] = IF Present(body, f) THEN body[f]
                                      ELSE old[f]
                        /\ new.project = old.project
                        /\ new.workspace = old.workspace
                        /\ new.createdBy = old.createdBy
              /\ [r.store EXCEPT !.tasks = tasks] = Store
         ELSE /\ r.outcome = "NotFoundException"
              /\ r.store = Store

\* Two projects of one workspace with a task each, one task DONE and the other
\* TODO: an update through the other project, or of a missing task, is refused
\* and an update of either task through its own project changes that task.
C18_Witness ==
  \E t1, t2 \in tasks, p1, p2 \in projects :
    /\ p1.id # p2.id /\ p1.workspace = p2.workspace
    /\ t1.project = p1.id /\ t2.project = p2.id
    /\ t1.status = DONE /\ t2.status = TODO

\* C19: changeMemberRoleService(W, m, r) sets the role of exactly the Member
\* (m, W) to r and leaves every other Member, the workspace and its owner as
\* they were; it throws and changes nothing when workspace W does not exist,
\* role r does not exist, or no Member (m, W) exists.
OtherMembers(S, u, w) ==
  {x \in S.members : ~(x.userId = u /\ x.workspaceId = w)}
C19_ChangeMemberRole ==
  \A w \in WorkspaceIds, m \in UserArgs, r \in RoleIds :
    LET res == changeMemberRoleService(Store, w, m, r)
    IN IF /\ WorkspaceById(Store, w) # {}
          /\ RoleById(Store, r) # {}
          /\ MembersOf(Store, m, w) # {}
         THEN /\ res.outcome = "ok"
              /\ OtherMembers(res.store, m, w) = OtherMembers(Store, m, w)
              /\ {[x EXCEPT !.role = r] : x \in MembersOf(Store, m, w)}
                   = MembersOf(res.store, m, w)
              /\ res.store.workspaces = workspaces
              /\ [res.store EXCEPT !.members = members] = Store
         ELSE /\ res.outcome # "ok"
              /\ res.store = Store

\* After a second run of the seeder, a user who is a member of two workspaces
\* was made ADMIN in the one they do not own and is still OWNER of their own,
\* whose role id is of the first seeding and names no Role any more.
C19_Witness ==
  /\ counters.roles = 2 * Len(RoleNames)
  /\ \E m1, m2 \in members, x \in workspaces :
       /\ m1.userId = m2.userId /\ m1.workspaceId # m2.workspaceId
       /\ x.id = m1.workspaceId /\ x.owner # m1.userId
       /\ RoleNameOf(Store, m1.role) = ADMIN
       /\ RoleById(Store, m2.role) = {}

\* C20: joinWorkspaceByInviteService(u, code), when code is the invite code of
\* a workspace W of which u is no member, adds exactly one Member (u, W) with
\* the MEMBER role and returns W's id and the role's name; it throws
\* NotFoundException when no workspace has the code (or there is no MEMBER
\* role) and BadRequestException when u is a member of W already, and then no
\* Member is added or changed.
C20_JoinByInvite ==
  \A u \in UserArgs, code \in WorkspaceIds \cup {Null} :
    LET r == joinWorkspaceByInviteService(Store, u, code)
        newMembers == r.store.members \ members
    IN IF WorkspaceByInviteCode(Store, code) = {}
         THEN r.outcome = "NotFoundException" /\ r.store = Store
       ELSE \A x \in WorkspaceByInviteCode(Store, code) :
         IF MembersOf(Store, u, x.id) # {}
           THEN r.outcome = "BadRequestException" /\ r.store = Store
         ELSE IF RoleByName(Store, MEMBER) = {}
           THEN r.outcome = "NotFoundException" /\ r.store = Store
         ELSE /\ r.outcome = "ok"
              /\ r.ret = {x.id} /\ r.role = MEMBER
              /\ members \subseteq r.store.members
              /\ Cardinality(newMembers) = 1
              /\ \A m \in newMembers :
                   /\ m.userId = u /\ m.workspaceId = x.id
                   /\ \A o \in members : o.id # m.id
                   /\ \E role \in RoleById(Store, m.role) : role.name = MEMBER
              /\ [r.store EXCEPT !.members = members, !.counters = counters]
                   = Store

\* After a second run of the seeder a user joined a workspace of another user
\* and holds the current MEMBER Role there, and is no member of a second
\* workspace whose invite code they could use next.
C20_Witness ==
  /\ counters.roles = 2 * Len(RoleNames)
  /\ \E m \in members, x, y \in workspaces :
       /\ m.workspaceId = x.id /\ x.owner # m.userId
       /\ RoleNameOf(Store, m.role) = MEMBER
       /\ m.role > Len(RoleNames)
       /\ y.id # x.id /\ MembersOf(Store, m.userId, y.id) = {}

\* C21: getWorkspaceAnalyticsService(W) returns totalTasks = the number of
\* tasks of workspace W, overdueTask = the number of those due before the
\* current date and not DONE, completedTasks = the number of those DONE, so
\* overdueTask + completedTasks <= totalTasks; getProjectAnalyticsService(W, P)
\* returns the same three counts over the tasks of project P (0 without tasks)
\* and throws NotFoundException when P is missing or of another workspace.
\* Neither changes state.
RECURSIVE TallyUpTo(_, _)
TallyUpTo(ids, n) ==
  IF n = 0 THEN 0 ELSE (IF n \in ids THEN 1 ELSE 0) + TallyUpTo(ids, n - 1)
Tally(matching) == TallyUpTo({t.id : t \in matching}, counters.tasks)
OverdueOn(T, day) ==
  {t \in T : t.dueDate \in DueDates /\ t.dueDate < day /\ t.status # DONE}
CompletedOf(T) == {t \in T : t.status = DONE}
C21_AnalyticsCounts ==
  \A w \in WorkspaceIds, day \in Dates :
    /\ LET r == getWorkspaceAnalyticsService(Store, w, day)
           ofW == {t \in tasks : t.workspace = w}
       IN /\ r.outcome = "ok" /\ r.store = Store
          /\ r.analytics.totalTasks = Tally(ofW)
          /\ r.analytics.overdueTask = Tally(OverdueOn(ofW, day))
          /\ r.analytics.completedTasks = Tally(CompletedOf(ofW))
          /\ r.analytics.overdueTask + r.analytics.completedTasks
               <= r.analytics.totalTasks
    /\ \A p \in ProjectIds :
         LET r == getProjectAnalyticsService(Store, w, p, day)
             ofP == {t \in tasks : t.project = p}
         IN /\ r.store = Store
            /\ IF \E x \in projects : x.id = p /\ x.workspace = w
                 THEN /\ r.outcome = "ok"
                      /\ r.analytics.totalTasks = Tally(ofP)
                      /\ r.analytics.overdueTasks = Tally(OverdueOn(ofP, day))
                      /\ r.analytics.completedTasks = Tally(CompletedOf(ofP))
                      /\ r.analytics.overdueTasks + r.analytics.completedTasks
                           <= r.analytics.totalTasks
                 ELSE r.outcome = "NotFoundException"

\* A project with a task that is DONE and was due on the first day and a task
\* that is not done and was due then too, and a project without tasks.
C21_Witness ==
  \E t1, t2 \in tasks, x \in projects :
    /\ t1.project = t2.project /\ t1.workspace = x.workspace
    /\ t1.status = DONE /\ t1.dueDate = 1
    /\ t2.status = TODO /\ t2.dueDate = 1
    /\ \A t \in tasks : t.project # x.id

\* C22: for pageSize >= 1 and pageNumber >= 1 getAllTasksService and
\* getAllProjectInWorkspaceService return skip = (pageNumber - 1) * pageSize,
\* totalPages = ceil(totalCount / pageSize) and at most pageSize items,
\* totalCount is the number of items matching the workspace (and the filters),
\* and pages 1..totalPages of an unchanged store hold every matching item
\* exactly once.
IsCeil(totalPages, totalCount, pageSize) ==
  /\ totalPages * pageSize >= totalCount
  /\ (totalPages - 1) * pageSize < totalCount
EveryItemOnce(pages, matching) ==
  /\ UNION {pages[n] : n \in DOMAIN pages} = matching
  /\ \A n, m \in DOMAIN pages : n # m => pages[n] \cap pages[m] = {}
TasksPaged ==
  \A w \in WorkspaceIds, projectId \in ProjectIds \cup {Null} :
    \A status \in {{}, {DONE}}, pageSize \in PageSizes :
      LET filters == [projectId |-> projectId, status |-> status]
          matching == {t \in tasks : /\ t.workspace = w
                                     /\ projectId # Null => t.project = projectId
                                     /\ status # {} => t.status \in status}
          R(n) == getAllTasksService(Store, w, filters, pageSize, n)
      IN /\ \A n \in PageNumbers :
              /\ R(n).store = Store
              /\ R(n).skip = (n - 1) * pageSize
              /\ R(n).totalCount = Tally(matching)
              /\ IsCeil(R(n).totalPages, R(n).totalCount, pageSize)
              /\ Cardinality(R(n).ret) <= pageSize
         /\ EveryItemOnce([n \in 1..R(1).totalPages |-> R(n).ret], matching)
ProjectsPaged ==
  \A w \in WorkspaceIds, pageSize \in PageSizes :
    LET matching == {x \in projects : x.workspace = w}
        Answers(n) == ProjectPages(Store, w, pageSize, n)
        R(n, page) ==
          getAllProjectInWorkspaceService(Store, w, pageSize, n, page)
        totalPages == Ceil(Cardinality(matching), pageSize)
    IN /\ \A n \in PageNumbers : \A page \in Answers(n) :
            /\ R(n, page).store = Store
            /\ R(n, page).skip = (n - 1) * pageSize
            /\ R(n, page).totalCount
                 = TallyUpTo({x.id : x \in matching}, counters.projects)
            /\ IsCeil(R(n, page).totalPages, R(n, page).totalCount, pageSize)
            /\ R(n, page).totalPages = totalPages
            /\ Cardinality(R(n, page).ret) <= pageSize
       /\ \A pages \in [1..totalPages -> SUBSET matching] :
            (\A n \in 1..totalPages : pages[n] \in Answers(n)) =>
              EveryItemOnce([n \in 1..totalPages |-> R(n, pages[n]).ret],
                            matching)
C22_Pagination == TasksPaged /\ ProjectsPaged

\* C23: the stored password of a user created with password p is always
\* exactly one hash of p: after the creation and after any number of saves
\* that do not modify the password, comparePassword(p) is true and the stored
\* value is not the plaintext and not a hash of a hash.
IsHash(v) == \E x \in {Plaintext, HashValue(Plaintext)} : v = HashValue(x)
C23_PasswordHashedOnce ==
  \A u \in DOMAIN users :
    /\ comparePassword(users[u], Plaintext)
    /\ users[u].password # Plaintext
    /\ ~(IsHash(users[u].password) /\ IsHash(Tail(users[u].password)))

\* C24: after any sequence of completed createWorkspaceService,
\* joinWorkspaceByInviteService, changeMemberRoleService and
\* deleteWorkspaceService calls, every existing Workspace has a Member for its
\* owner, and that Member's role is OWNER.
OwnerIsMember ==
  \A x \in workspaces : MembersOf(Store, x.owner, x.id) # {}
C24_OwnerHasOwnerRole ==
  /\ OwnerIsMember
  /\ \A x \in workspaces :
       \A m \in MembersOf(Store, x.owner, x.id) :
         RoleNameOf(Store, m.role) = OWNER

\* C25: after any sequence of completed createTaskService, updateTaskService,
\* joinWorkspaceByInviteService and deleteWorkspaceService calls, every Task
\* with an assignee is assigned to a user who has a Member record in the
\* task's workspace.
C25_AssigneeIsMember ==
  \A t \in tasks :
    t.assignedTo # NoUser => MembersOf(Store, t.assignedTo, t.workspace) # {}

====
